---- MODULE Spec2Model ----
(***************************************************************************)
(* A model of covertrace/utils/upeak/peak_utils.py: the Peaks collection   *)
(* (an OrderedDict of peak_site objects), the construction of a site       *)
(* (label arrays -> index lists -> de-duplication), and the lazily cached  *)
(* metric accessors.                                                       *)
(*                                                                         *)
(* Conventions.  A trace is a sequence of samples; frame i of the source   *)
(* (0-based) is element i+1 of the sequence, and the index lists hold the  *)
(* source's 0-based frame numbers.  Rows (traces of a site) are numbered   *)
(* 1..R where the source numbers them 0..R-1.  Samples are integers and    *)
(* NaN stands for numpy's nan.  The functions of data_utils (du) are not   *)
(* part of the sources at hand: a call of one is kept as the term          *)
(* [f |-> name, args |-> arguments], so a cached value records exactly     *)
(* what it was computed from.                                              *)
(***************************************************************************)
EXTENDS Integers, Sequences, FiniteSets, TLC

VARIABLES sites, order, given, last, nops, arg, run

vars == <<sites, order, given, last, nops, arg, run>>

----------------------------------------------------------------------------
(* Bounds of the model *)

MaxOps == 4

----------------------------------------------------------------------------
(* The record of the latest call *)

\* the names of the attributes each site holds
Held == [k \in DOMAIN sites |-> DOMAIN sites[k].attrs]

\* what an operation leaves behind for the properties to read: its name and
\* arguments, the attribute it returns, the exception that left it ("" for
\* none), the returned list (one entry per site) and the attributes the
\* sites held when it was called
Called(op, args, key, err, val) ==
    /\ last' = [op |-> op, args |-> args, key |-> key, err |-> err, val |-> val,
                had |-> Held]
    /\ nops' = nops + 1
    /\ UNCHANGED <<arg, run>>

----------------------------------------------------------------------------
(* Generic helpers *)

NaN == -1

Min(S) == CHOOSE x \in S : \A y \in S : x <= y

RECURSIVE SortSet(_)
SortSet(S) == IF S = {} THEN <<>>
              ELSE LET m == Min(S) IN <<m>> \o SortSet(S \ {m})

Range(q) == {q[i] : i \in DOMAIN q}

\* trace[i] for a 0-based frame number i
At(row, i) == row[i + 1]

Frames(row) == 0 .. (Len(row) - 1)

----------------------------------------------------------------------------
(* Label arrays and index lists *)

\* the 1-D branch: for every positive label in ascending order, the frames
\* that carry it
_labels_to_peak_idxs_1d(lab) ==
    LET ls == SortSet({x \in Range(lab) : x > 0})
    IN  [j \in 1..Len(ls) |-> SortSet({i \in Frames(lab) : At(lab, i) = ls[j]})]

_labels_to_peak_idxs(labels) ==
    [n \in 1..Len(labels) |-> _labels_to_peak_idxs_1d(labels[n])]

\* labels[i, x] = j + 1 for the j-th index list x of row i; a later list
\* overwrites an earlier one on a shared frame
_2d_idxs_to_labels(traces, idxs) ==
    [n \in 1..Len(traces) |->
        [k \in 1..Len(traces[n]) |->
            LET js == {j \in 1..Len(idxs[n]) : (k - 1) \in Range(idxs[n][j])}
            IN  IF js = {} THEN 0 ELSE CHOOSE j \in js : \A j2 \in js : j2 <= j]]

----------------------------------------------------------------------------
(* De-duplication of peaks that appear in more than one row *)

ThresNum == 8
ThresDen == 10
MinOverlap == 4

\* np.where(traces[n] - traces[p] == 0)[0]: a difference with nan is nan
overlaps(traces, n, p) ==
    {i \in Frames(traces[n]) :
        /\ At(traces[n], i) # NaN
        /\ At(traces[p], i) # NaN
        /\ At(traces[n], i) = At(traces[p], i)}

potential_matches(traces, n) ==
    SortSet({p \in 1..Len(traces) :
                p # n /\ Cardinality(overlaps(traces, n, p)) > MinOverlap})

\* the position of the first array equal to removed_peak, or 0
FirstEqual(peak_list, removed_peak) ==
    LET hits == {k \in 1..Len(peak_list) : peak_list[k] = removed_peak}
    IN  IF hits = {} THEN 0 ELSE Min(hits)

\* [list, err]: the list without the first array equal to removed_peak
_peak_remover(peak_list, removed_peak) ==
    LET k == FirstEqual(peak_list, removed_peak)
    IN  IF k = 0
        THEN [list |-> peak_list, err |-> "ValueError"]
        ELSE [list |-> [j \in 1..(Len(peak_list) - 1) |->
                            IF j < k THEN peak_list[j] ELSE peak_list[j + 1]],
              err |-> ""]

IsMatch(peak1, peak2, ov) ==
    /\ Len(peak1) # 0
    /\ Len(peak2) # 0
    /\ Range(peak1) \subseteq ov
    /\ ThresDen * Cardinality(Range(peak1) \cap Range(peak2)) > ThresNum * Len(peak1)

\* lines 350-351 for one matching (peak1, peak2); p_idx is the source's
\* 0-based position of peak1 in the copy of row n's de-duplicated list
RemoveOne(st, plateau_idxs, n, peak1, p_idx) ==
    LET r1 == _peak_remover(st.pk[n], peak1)
    IN  IF r1.err # "" THEN [st EXCEPT !.err = r1.err]
        ELSE IF p_idx + 1 > Len(plateau_idxs[n])
             THEN [st EXCEPT !.pk[n] = r1.list, !.err = "IndexError"]
             ELSE LET r2 == _peak_remover(st.pl[n], plateau_idxs[n][p_idx + 1])
                  IN  [err |-> r2.err,
                       pk  |-> [st.pk EXCEPT ![n] = r1.list],
                       pl  |-> [st.pl EXCEPT ![n] = r2.list]]

\* the removal turned round: a match takes the peak (and the plateau at its
\* position) from row p, the row compared against
LoopPeak2FromOther(st, plateau_idxs, ov, n, p, peak1, p_idx, k) ==
    LET hits == {j \in k..Len(st.pk[p]) : IsMatch(peak1, st.pk[p][j], ov)}
        drop(list, j) == [i \in 1..(Len(list) - 1) |->
                             IF i < j THEN list[i] ELSE list[i + 1]]
    IN  IF st.err # "" \/ hits = {} THEN st
        ELSE [st EXCEPT !.pk[p] = drop(@, Min(hits)),
                        !.pl[p] = IF Min(hits) <= Len(@) THEN drop(@, Min(hits)) ELSE @]

RECURSIVE LoopPeak2(_, _, _, _, _, _, _, _)
LoopPeak2(st, plateau_idxs, ov, n, p, peak1, p_idx, k) ==
    IF st.err # "" \/ k > Len(st.pk[p]) THEN st
    ELSE LET st1 == IF IsMatch(peak1, st.pk[p][k], ov)
                    THEN RemoveOne(st, plateau_idxs, n, peak1, p_idx)
                    ELSE st
         IN  LoopPeak2(st1, plateau_idxs, ov, n, p, peak1, p_idx, k + 1)

RECURSIVE LoopPeak1(_, _, _, _, _, _, _)
LoopPeak1(st, plateau_idxs, ov, n, p, copy, i) ==
    IF st.err # "" \/ i > Len(copy) THEN st
    ELSE LoopPeak1(LoopPeak2(st, plateau_idxs, ov, n, p, copy[i], i - 1, 1),
                   plateau_idxs, ov, n, p, copy, i + 1)

RECURSIVE LoopMatch(_, _, _, _, _, _)
LoopMatch(st, traces, plateau_idxs, n, matches, m) ==
    IF st.err # "" \/ m > Len(matches) THEN st
    ELSE LET p == matches[m]
         IN  LoopMatch(LoopPeak1(st, plateau_idxs, overlaps(traces, n, p),
                                 n, p, st.pk[n], 1),
                       traces, plateau_idxs, n, matches, m + 1)

RECURSIVE LoopRow(_, _, _, _)
LoopRow(st, traces, plateau_idxs, n) ==
    IF st.err # "" \/ n > Len(traces) THEN st
    ELSE LoopRow(LoopMatch(st, traces, plateau_idxs, n,
                           potential_matches(traces, n), 1),
                 traces, plateau_idxs, n + 1)

\* [pk, pl, err]: the de-duplicated peak and plateau index lists
_remove_duplicate_peaks(traces, peak_idxs, plateau_idxs) ==
    LoopRow([err |-> "", pk |-> peak_idxs, pl |-> plateau_idxs],
            traces, plateau_idxs, 1)

----------------------------------------------------------------------------
(* peak_site.__init__ *)

NoAttrs == [k \in {} |-> <<>>]

\* the object once _remove_duplicate_peaks has returned dd
NewSite(traces, peak_labels, seed_labels, predictions, pk, pl, dd) ==
        [err  |-> dd.err,
         site |-> [traces               |-> traces,
                   peak_labels          |-> peak_labels,
                   seed_labels          |-> seed_labels,
                   predictions          |-> predictions,
                   raw_traces           |-> traces,
                   _peak_idxs           |-> pk,
                   _plateau_idxs        |-> pl,
                   peak_counts          |-> [n \in 1..Len(pk) |-> Len(pk[n])],
                   _dedup_peak_idxs     |-> dd.pk,
                   _dedup_plateau_idxs  |-> dd.pl,
                   _dedup_peak_labels   |-> _2d_idxs_to_labels(traces, dd.pk),
                   _dedup_plateau_labels |-> _2d_idxs_to_labels(traces, dd.pl),
                   attrs                |-> NoAttrs,
                   ncomp                |-> NoAttrs]]

IndexedSite(traces, peak_labels, seed_labels, predictions, pk, pl) ==
    NewSite(traces, peak_labels, seed_labels, predictions, pk, pl,
            _remove_duplicate_peaks(traces, pk, pl))

\* [site, err]: err is the exception that leaves the constructor, if any
peak_site(traces, peak_labels, seed_labels, predictions) ==
    IndexedSite(traces, peak_labels, seed_labels, predictions,
                _labels_to_peak_idxs(peak_labels),
                _labels_to_peak_idxs(seed_labels))

----------------------------------------------------------------------------
(* Attributes of a site object.  attrs holds the attributes a site gains   *)
(* as metrics are requested; ncomp counts, per attribute, how often the    *)
(* body that computes it was entered (a counter the source does not keep). *)

hasattr(s, k) == k \in DOMAIN s.attrs

getattr(s, k) == s.attrs[k]

setattr(s, k, v) ==
    [s EXCEPT !.attrs = [x \in (DOMAIN s.attrs) \cup {k} |->
                            IF x = k THEN v ELSE s.attrs[x]]]

delattr(s, k) ==
    [s EXCEPT !.attrs = [x \in (DOMAIN s.attrs) \ {k} |-> s.attrs[x]]]

Count(s, k) == IF k \in DOMAIN s.ncomp THEN s.ncomp[k] ELSE 0

Counted(s, k) ==
    [s EXCEPT !.ncomp = [x \in (DOMAIN s.ncomp) \cup {k} |->
                            IF x = k THEN Count(s, k) + 1 ELSE s.ncomp[x]]]

Ok(s) == [err |-> "", s |-> s]

Raise(s, e) == [err |-> e, s |-> s]

Rows(s) == 1 .. Len(s.traces)

MinOf(a, b) == IF a <= b THEN a ELSE b

\* a call of a function of data_utils, kept as a term
du(f, args) == [f |-> f, args |-> args]

\* x[i] of a value returned by data_utils
Item(x, i) == [f |-> "getitem", args |-> <<x, i>>]

\* a value of data_utils that holds one entry per peak, as a list
PerPeak(x, count) == [j \in 1..count |-> Item(x, j - 1)]

\* the peak index lists the duplicates flag selects in amplitude, base_pts,
\* base, asymmetry, prominence, cross_pts and slope_pts
PeakUniverse(s, duplicates) ==
    IF duplicates THEN s._peak_idxs ELSE s._dedup_peak_idxs

PlateauUniverse(s, duplicates) ==
    IF duplicates THEN s._plateau_idxs ELSE s._dedup_plateau_idxs

LabelUniverse(s, duplicates) ==
    IF duplicates THEN s.peak_labels ELSE s._dedup_peak_labels

----------------------------------------------------------------------------
(* The metric accessors of peak_site.  Each returns [s, err]: the site     *)
(* after the call and the exception that left it ("" for none).            *)

DefaultDist == 4
DefaultAdjustEdge == TRUE
TractsDefaultMaxGap == 12
ProminenceDefaultMaxGap == 10

_get_amplitude(s, duplicates) ==
    IF hasattr(s, "amplitude") THEN Ok(s)
    ELSE Ok(Counted(setattr(s, "amplitude",
            [n \in Rows(s) |->
                LET U == PeakUniverse(s, duplicates)[n]
                IN  [j \in 1..Len(U) |->
                        du("_peak_amplitude", <<s.traces[n], U[j]>>)]]),
            "amplitude"))

\* the loop of lines 371-383, on the site with asymmetry = []
AsymmetryLoop(s, method, duplicates) ==
    IF Len(s.traces) = 0 THEN Ok(s)
    ELSE IF ~hasattr(s, "amplitude") THEN Raise(s, "AttributeError")
    ELSE Ok(setattr(s, "asymmetry",
            [n \in Rows(s) |->
                LET U == PeakUniverse(s, duplicates)[n]
                    A == getattr(s, "amplitude")[n]
                IN  [j \in 1..MinOf(Len(U), Len(A)) |->
                        IF method = "plateau"
                        THEN du("_peak_asymmetry",
                                <<s.traces[n], U[j], Item(A[j], 0)>>)
                        ELSE du("_peak_asymmetry_by_plateau",
                                <<s.traces[n], U[j], A[j]>>)]]))

_get_asymmetry(s, method, duplicates) ==
    IF hasattr(s, "asymmetry") THEN Ok(s)
    ELSE AsymmetryLoop(
            Counted(setattr(IF ~hasattr(s, "amplitude") /\ method = "amplitude"
                            THEN _get_amplitude(s, duplicates).s ELSE s,
                            "asymmetry", <<>>),
                    "asymmetry"),
            method, duplicates)

_get_auc(s, area, duplicates) ==
    IF area = "peak"
    THEN IF hasattr(s, "peak_auc") THEN Ok(s)
         ELSE Ok(Counted(setattr(s, "peak_auc",
                [n \in Rows(s) |->
                    LET U == IF duplicates THEN s._dedup_peak_idxs[n]
                                           ELSE s._peak_idxs[n]
                    IN  [j \in 1..Len(U) |->
                            du("_area_under_curve", <<s.traces[n], U[j]>>)]]),
                "peak_auc"))
    ELSE IF hasattr(s, "total_auc") THEN Ok(s)
         ELSE Ok(Counted(setattr(s, "total_auc",
                [n \in Rows(s) |->
                    du("_area_under_curve",
                       <<s.traces[n], SortSet(Frames(s.traces[n]))>>)]),
                "total_auc"))

_get_peak_base_pts(s, adjust_edge, dist, duplicates) ==
    IF hasattr(s, "base_pts") THEN Ok(s)
    ELSE Ok(Counted(setattr(s, "base_pts",
            [n \in Rows(s) |->
                LET U == PeakUniverse(s, duplicates)[n]
                IN  [j \in 1..Len(U) |->
                        du("_peak_base_pts",
                           <<s.traces[n], U[j], adjust_edge, dist>>)]]),
            "base_pts"))

\* the loop of lines 425-430
BaseLoop(s, duplicates) ==
    Ok(Counted(setattr(s, "base",
            [n \in Rows(s) |->
                LET U == PeakUniverse(s, duplicates)[n]
                    B == getattr(s, "base_pts")[n]
                IN  [j \in 1..MinOf(Len(U), Len(B)) |->
                        du("_peak_base", <<s.traces[n], U[j], B[j]>>)]]),
            "base"))

_get_base(s, adjust_edge, dist, duplicates) ==
    IF hasattr(s, "base") THEN Ok(s)
    ELSE BaseLoop(IF ~hasattr(s, "base_pts")
                  THEN _get_peak_base_pts(s, adjust_edge, dist, duplicates).s
                  ELSE s,
                  duplicates)

_get_integral(s) ==
    IF hasattr(s, "integral") THEN Ok(s)
    ELSE Ok(Counted(setattr(s, "integral",
            [n \in Rows(s) |-> du("_integrated_activity", <<s.traces[n]>>)]),
            "integral"))

_get_derivative(s) ==
    IF hasattr(s, "derivative") THEN Ok(s)
    ELSE Ok(Counted(setattr(s, "derivative",
            [n \in Rows(s) |-> du("_derivative_trace", <<s.traces[n]>>)]),
            "derivative"))

_get_tracts(s, max_gap, duplicates) ==
    IF hasattr(s, "tracts") THEN Ok(s)
    ELSE Ok(Counted(setattr(s, "tracts",
            [n \in Rows(s) |->
                du("_detect_peak_tracts",
                   <<s.traces[n], LabelUniverse(s, duplicates)[n], max_gap>>)]),
            "tracts"))

\* the number of peaks of a label row
NumPeaks(lab) == Cardinality({x \in Range(lab) : x > 0})

NeedAmplitude(s, duplicates) ==
    IF ~hasattr(s, "amplitude") THEN _get_amplitude(s, duplicates).s ELSE s

NeedBase(s, duplicates) ==
    IF ~hasattr(s, "base")
    THEN _get_base(s, DefaultAdjustEdge, DefaultDist, duplicates).s ELSE s

NeedTracts(s, adjust_tracts, max_gap, duplicates) ==
    IF adjust_tracts /\ ~hasattr(s, "tracts")
    THEN _get_tracts(s, max_gap, duplicates).s ELSE s

\* lines 479-494, on the site that holds amplitude, base and (adjust_tracts)
\* tracts; base_pts is read without a check
ProminenceLoop(s, adjust_tracts, bi_directional, duplicates) ==
    IF adjust_tracts
    THEN IF Len(s.traces) > 0 /\ ~hasattr(s, "base_pts")
         THEN Raise(s, "AttributeError")
         ELSE Ok(setattr(s, "prominence",
                [n \in Rows(s) |->
                    LET lab == LabelUniverse(s, duplicates)[n]
                    IN  PerPeak(du("_tract_adjusted_peak_prominence",
                                   <<s.traces[n], lab,
                                     getattr(s, "tracts")[n],
                                     getattr(s, "base")[n],
                                     getattr(s, "amplitude")[n],
                                     getattr(s, "base_pts")[n],
                                     bi_directional>>),
                                NumPeaks(lab))]))
    ELSE Ok(setattr(s, "prominence",
            [n \in Rows(s) |->
                LET U == PeakUniverse(s, duplicates)[n]
                    B == getattr(s, "base")[n]
                    A == getattr(s, "amplitude")[n]
                IN  [j \in 1..MinOf(Len(U), MinOf(Len(B), Len(A))) |->
                        du("_peak_prominence",
                           <<s.traces[n], U[j], B[j], A[j]>>)]]))

_get_prominence(s, adjust_tracts, bi_directional, max_gap, duplicates) ==
    IF hasattr(s, "prominence") THEN Ok(s)
    ELSE ProminenceLoop(
            NeedTracts(
                NeedBase(
                    NeedAmplitude(
                        Counted(setattr(s, "prominence", <<>>), "prominence"),
                        duplicates),
                    duplicates),
                adjust_tracts, max_gap, duplicates),
            adjust_tracts, bi_directional, duplicates)

PlateauPts(s, duplicates) ==
    [n \in Rows(s) |->
        LET U == PlateauUniverse(s, duplicates)[n]
        IN  [j \in 1..Len(U) |-> du("_plateau_pts", <<s.traces[n], U[j]>>)]]

PlateauLoop(s, pts) ==
    Ok(Counted(setattr(setattr(s, "plateau_pts", pts), "plateau_width",
            [n \in Rows(s) |->
                [j \in 1..Len(pts[n]) |-> du("x1_minus_x0", <<pts[n][j]>>)]]),
            "plateau_width"))

_get_plateau_width(s, duplicates) ==
    IF hasattr(s, "plateau_width") THEN Ok(s)
    ELSE PlateauLoop(s, PlateauPts(s, duplicates))

_get_slope_pts(s, duplicates) ==
    IF hasattr(s, "slope_pts") THEN Ok(s)
    ELSE Ok(Counted(setattr(s, "slope_pts",
            [n \in Rows(s) |->
                LET U == PeakUniverse(s, duplicates)[n]
                    P == PlateauUniverse(s, duplicates)[n]
                IN  [j \in 1..MinOf(Len(U), Len(P)) |->
                        du("_slope_pts", <<s.traces[n], U[j], P[j]>>)]]),
            "slope_pts"))

----------------------------------------------------------------------------
(* The attribute names of the width and cross_pts families.  Heights are   *)
(* held in thousandths; abs_height is <<>> for None and <<h>> for h.       *)

DigitChars == <<"0", "1", "2", "3", "4", "5", "6", "7", "8", "9">>

Digit(d) == DigitChars[d + 1]

RECURSIVE IntStr(_)
IntStr(n) == IF n < 10 THEN Digit(n) ELSE IntStr(n \div 10) \o Digit(n % 10)

\* the height in hundredths that '{:.2f}' prints (ties go to the even digit,
\* as they do for the heights a binary float holds exactly)
Round2(h) ==
    LET a == IF h < 0 THEN 0 - h ELSE h
        q == a \div 10
        r == a % 10
    IN  IF r > 5 \/ (r = 5 /\ q % 2 = 1) THEN q + 1 ELSE q

\* '{:.2f}'.format(h).replace('.', '_')
Fmt2(h) ==
    LET c == Round2(h)
    IN  (IF h < 0 THEN "-" ELSE "") \o IntStr(c \div 100) \o "_"
        \o Digit((c \div 10) % 10) \o Digit(c % 10)

HeightKey(rel_height, abs_height) ==
    IF abs_height = <<>> THEN "rel_" \o Fmt2(rel_height)
    ELSE "abs_" \o Fmt2(abs_height[1])

width_attr(rel_height, abs_height) == "width_" \o HeightKey(rel_height, abs_height)

\* a key that leaves out whether the height is relative or absolute
cross_attr_kindless(rel_height, abs_height) ==
    "cross_" \o Fmt2(IF abs_height = <<>> THEN rel_height ELSE abs_height[1])

cross_attr(rel_height, abs_height) == "cross_" \o HeightKey(rel_height, abs_height)

----------------------------------------------------------------------------
(* cross_pts and width *)

\* the exception raised while row n of the loop of lines 538-547 is
\* computed, "" for none: zip's arguments are evaluated first, then
\* self.tracts[n] once per zipped element
CrossRowErr(s, n, duplicates) ==
    LET need == <<"amplitude", "prominence", "slope_pts">>
        bad  == {i \in 1..3 : ~hasattr(s, need[i]) \/ Len(getattr(s, need[i])) < n}
    IN  IF bad # {}
        THEN IF hasattr(s, need[Min(bad)]) THEN "IndexError" ELSE "AttributeError"
        ELSE LET m == MinOf(MinOf(Len(PeakUniverse(s, duplicates)[n]),
                                  Len(getattr(s, "amplitude")[n])),
                            MinOf(Len(getattr(s, "prominence")[n]),
                                  Len(getattr(s, "slope_pts")[n])))
             IN  IF m = 0 THEN ""
                 ELSE IF ~hasattr(s, "tracts") THEN "AttributeError"
                 ELSE IF Len(getattr(s, "tracts")) < n THEN "IndexError"
                 ELSE ""

CrossRow(s, n, rel_height, abs_height, estimate, return_widest, duplicates) ==
    LET U == PeakUniverse(s, duplicates)[n]
        A == getattr(s, "amplitude")[n]
        P == getattr(s, "prominence")[n]
        S == getattr(s, "slope_pts")[n]
    IN  [j \in 1..MinOf(MinOf(Len(U), Len(A)), MinOf(Len(P), Len(S))) |->
            du("_get_crosses_at_height",
               <<s.traces[n], U[j], rel_height, abs_height,
                 getattr(s, "tracts")[n], estimate, return_widest,
                 A[j], P[j], S[j]>>)]

\* the loop of lines 538-547 on the site with the attribute key = []: the
\* rows before the first one that raises are appended
CrossRows(s, key, bad, rel_height, abs_height, estimate, return_widest, duplicates) ==
    [err |-> IF bad = {} THEN "" ELSE CrossRowErr(s, Min(bad), duplicates),
     s   |-> setattr(s, key,
                [n \in 1..(IF bad = {} THEN Len(s.traces) ELSE Min(bad) - 1) |->
                    CrossRow(s, n, rel_height, abs_height, estimate,
                             return_widest, duplicates)])]

CrossLoop(s, key, rel_height, abs_height, estimate, return_widest, duplicates) ==
    CrossRows(s, key, {n \in Rows(s) : CrossRowErr(s, n, duplicates) # ""},
              rel_height, abs_height, estimate, return_widest, duplicates)

\* lines 531-549, on the site after the prominence of lines 525-526
CrossBody(s, key, rel_height, abs_height, estimate, return_widest, duplicates) ==
    IF hasattr(s, key) THEN Ok(s)
    ELSE CrossLoop(Counted(setattr(s, key, <<>>), key), key, rel_height,
                   abs_height, estimate, return_widest, duplicates)

NeedSlopePts(s, estimate, duplicates) ==
    IF estimate = "linear" /\ ~hasattr(s, "slope_pts")
    THEN _get_slope_pts(s, duplicates).s ELSE s

NeedGaussTracts(s, estimate, duplicates) ==
    IF estimate = "gauss" /\ ~hasattr(s, "tracts")
    THEN _get_tracts(s, TractsDefaultMaxGap, duplicates).s ELSE s

CrossAfter(r1, rel_height, abs_height, estimate, return_widest, duplicates) ==
    IF r1.err # "" THEN r1
    ELSE CrossBody(NeedGaussTracts(NeedSlopePts(r1.s, estimate, duplicates),
                                   estimate, duplicates),
                   cross_attr(rel_height, abs_height), rel_height, abs_height,
                   estimate, return_widest, duplicates)

_get_cross_pts(s, rel_height, abs_height, estimate, return_widest, duplicates) ==
    CrossAfter(IF abs_height = <<>> /\ ~hasattr(s, "prominence")
               THEN _get_prominence(s, TRUE, FALSE, ProminenceDefaultMaxGap,
                                    duplicates)
               ELSE Ok(s),
               rel_height, abs_height, estimate, return_widest, duplicates)

\* line 516, on the outcome r1 of lines 513-514
WidthAfter(r1, wkey, c) ==
    IF r1.err # "" THEN r1
    ELSE Ok(Counted(setattr(r1.s, wkey,
                [n \in 1..Len(c) |->
                    PerPeak(du("_width_at_pts", <<c[n]>>), Len(c[n]))]),
                wkey))

WidthBody(r1, wkey, ckey) ==
    WidthAfter(r1, wkey, IF r1.err # "" THEN <<>> ELSE getattr(r1.s, ckey))

_get_width(s, rel_height, abs_height, estimate, return_widest, duplicates) ==
    IF hasattr(s, width_attr(rel_height, abs_height)) THEN Ok(s)
    ELSE WidthBody(IF ~hasattr(s, cross_attr(rel_height, abs_height))
                   THEN _get_cross_pts(s, rel_height, abs_height, estimate,
                                       return_widest, duplicates)
                   ELSE Ok(s),
                   width_attr(rel_height, abs_height),
                   cross_attr(rel_height, abs_height))

----------------------------------------------------------------------------
(* Traces: interpolation of nans and normalisation *)

Valid(row) == {i \in 1..Len(row) : row[i] # NaN}

\* np.interp at position i over the valid samples of row: the nearest valid
\* sample beyond either end, a point of the joining line in between (exact
\* for the rows of the model, whose gaps divide the differences)
InterpAt(row, i) ==
    LET ls == {k \in Valid(row) : k < i}
        rs == {k \in Valid(row) : k > i}
        l  == CHOOSE k \in ls : \A k2 \in ls : k2 <= k
        r  == Min(rs)
    IN  IF ls = {} THEN row[r]
        ELSE IF rs = {} THEN row[l]
        ELSE (row[l] * (r - i) + row[r] * (i - l)) \div (r - l)

\* [rows, err]: np.interp raises ValueError on a row without a valid sample
nan_helper_2d(arr) ==
    LET bad == {n \in 1..Len(arr) : Len(arr[n]) > 0 /\ Valid(arr[n]) = {}}
    IN  IF bad # {} THEN [err |-> "ValueError", rows |-> arr]
        ELSE [err  |-> "",
              rows |-> [n \in 1..Len(arr) |->
                          [i \in 1..Len(arr[n]) |->
                              IF arr[n][i] # NaN THEN arr[n][i]
                              ELSE InterpAt(arr[n], i)]]]

_interp_nans(s) ==
    LET r == nan_helper_2d(s.traces)
    IN  IF r.err # "" THEN Raise(s, r.err)
        ELSE Ok([s EXCEPT !.traces = r.rows])

\* data_utils.normalize_by_baseline, which is not among the sources: nans
\* are interpolated (docstring of Peaks.normalize_traces) and every sample
\* is moved to the normalised scale, kept apart from the raw one by NormShift
NormShift == 100

normalize_by_baseline(row) ==
    [i \in 1..Len(row) |->
        IF Valid(row) = {} THEN NaN
        ELSE NormShift + (IF row[i] # NaN THEN row[i] ELSE InterpAt(row, i))]

_normalize_traces(s, method) ==
    IF method = "base"
    THEN Ok([s EXCEPT !.traces =
                [n \in 1..Len(s.raw_traces) |->
                    normalize_by_baseline(s.raw_traces[n])]])
    ELSE Raise(s, "ValueError: Unknown normalization method " \o method)

_clear_attr(s, attr) ==
    IF hasattr(s, attr) THEN delattr(s, attr) ELSE s

----------------------------------------------------------------------------
(* filter_utils.clean_peaks, which is not among the sources: with every    *)
(* threshold None no cleaning function is called and the labels come back  *)
(* as they are; otherwise the peaks of one label (and their seeds) are     *)
(* cleared.  drop is that label, 0 for "every threshold None".             *)

clean_peaks(peak_labels, seed_labels, drop) ==
    LET clear(labels) ==
            [n \in 1..Len(labels) |->
                [i \in 1..Len(labels[n]) |->
                    IF drop # 0 /\ labels[n][i] = drop THEN 0 ELSE labels[n][i]]]
    IN  [peaks |-> clear(peak_labels), seeds |-> clear(seed_labels)]

----------------------------------------------------------------------------
(* The collection: Peaks(OrderedDict).  sites maps the names present to    *)
(* their site objects and order lists the names in insertion order.        *)

Pos(name) == CHOOSE i \in 1..Len(order) : order[i] = name

\* self[name] = site
SetItem(name, site) ==
    /\ sites' = [k \in (DOMAIN sites) \cup {name} |->
                    IF k = name THEN site ELSE sites[k]]
    /\ order' = IF name \in DOMAIN sites THEN order ELSE Append(order, name)

\* for key in self.keys(): G(self[key]) -- the loop stops at the first site
\* whose call raises, which keeps what the call did to it before raising
Stopped(r, bad) ==
    [sites |-> [k \in DOMAIN sites |->
                    IF bad = {} \/ Pos(k) <= Min(bad) THEN r[k].s ELSE sites[k]],
     err   |-> IF bad = {} THEN "" ELSE r[order[Min(bad)]].err]

FirstRaise(r) == Stopped(r, {i \in 1..Len(order) : r[order[i]].err # ""})

Broadcast(r) == FirstRaise(r)

\* a broadcast accessor: compute on every site, then collect attribute key
Returned(op, args, key, b) ==
    /\ sites' = b.sites
    /\ Called(op, args, key, b.err,
              IF b.err # "" THEN <<>>
              ELSE [i \in 1..Len(order) |-> getattr(b.sites[order[i]], key)])
    /\ UNCHANGED <<order, given>>

Accessor(op, args, key, r) ==
    /\ nops < MaxOps
    /\ Returned(op, args, key, Broadcast(r))

----------------------------------------------------------------------------
(* Segmentation: seeds from the plateau probability, peaks grown from the  *)
(* seeds by repeated watershed.  Probabilities are held in percent.        *)

SeedMaxGap == 2

\* np.split(candidates, bounds): the pieces between consecutive bounds
SplitAt(candidates, bounds) ==
    LET cut(k) == IF k = 0 THEN 0
                  ELSE IF k > Len(bounds) THEN Len(candidates)
                  ELSE bounds[k]
    IN  [k \in 1..(Len(bounds) + 1) |->
            SubSeq(candidates, cut(k - 1) + 1, cut(k))]

_constant_thres_seg(result, min_prob, min_length, max_gap) ==
    LET candidates == SortSet({i \in Frames(result) : At(result, i) > min_prob})
        diffs  == [k \in 1..Len(candidates) |->
                      IF k = 1 THEN 1 ELSE candidates[k] - candidates[k - 1]]
        \* np.ediff1d of an empty array with to_begin=1 is [1]
        diffs0 == IF Len(candidates) = 0 THEN <<1>> ELSE diffs
        bounds == SortSet({k - 1 : k \in {k \in 1..Len(diffs0) : diffs0[k] > max_gap}})
    IN  SelectSeq(SplitAt(candidates, bounds), LAMBDA q : Len(q) >= min_length)

\* the numbering started at 0: labels[s] = n
_idxs_to_labels_from_zero(trace, seed_idxs) ==
    [k \in 1..Len(trace) |->
        LET js == {j \in 1..Len(seed_idxs) : (k - 1) \in Range(seed_idxs[j])}
        IN  IF js = {} THEN 0 ELSE (CHOOSE j \in js : \A j2 \in js : j2 <= j) - 1]

\* labels[s] = n + 1 for the n-th index list s
_idxs_to_labels(trace, seed_idxs) ==
    [k \in 1..Len(trace) |->
        LET js == {j \in 1..Len(seed_idxs) : (k - 1) \in Range(seed_idxs[j])}
        IN  IF js = {} THEN 0 ELSE CHOOSE j \in js : \A j2 \in js : j2 <= j]

_labels_to_idxs(labels) == {i \in Frames(labels) : At(labels, i) > 0}

\* skimage.segmentation.watershed on a 1-D image with watershed_line=True and
\* compactness=0.  State st: out (labels), mask, heap (a set of elements
\* [value, age, index, source], popped by value, then age) and the age of
\* the last push.  Positions are 1..Len(image); beyond the ends the padded
\* mask is False.
HeapBefore(e, f) ==
    \/ e.value < f.value
    \/ e.value = f.value /\ e.age < f.age
    \/ e.value = f.value /\ e.age = f.age /\ e.index <= f.index

InMask(st, i) == i >= 1 /\ i <= Len(st.out) /\ st.mask[i]

\* the neighbours of position i that lie in the mask carry two labels
_diff_neighbors(st, i) ==
    \/ ~st.mask[i]
    \/ /\ InMask(st, i - 1) /\ InMask(st, i + 1)
       /\ st.out[i - 1] # 0 /\ st.out[i + 1] # 0
       /\ st.out[i - 1] # st.out[i + 1]

RECURSIVE Flood(_, _)
Flood(st, image) ==
    IF st.heap = {} THEN st.out
    ELSE
    LET e    == CHOOSE e \in st.heap : \A f \in st.heap : HeapBefore(e, f)
        rest == st.heap \ {e}
        i    == e.index
    IN  IF st.out[i] # 0 /\ i # e.source
        THEN Flood([st EXCEPT !.heap = rest], image)
        ELSE IF _diff_neighbors(st, i)
        THEN Flood([st EXCEPT !.heap = rest, !.mask[i] = FALSE], image)
        ELSE
        LET out1  == [st.out EXCEPT ![i] = st.out[e.source]]
            left  == InMask(st, i - 1) /\ out1[i - 1] = 0
            right == InMask(st, i + 1) /\ out1[i + 1] = 0
            pushL == IF left
                     THEN {[value |-> image[i - 1], age |-> st.age + 1,
                            index |-> i - 1, source |-> e.source]}
                     ELSE {}
            ageL  == IF left THEN st.age + 1 ELSE st.age
            pushR == IF right
                     THEN {[value |-> image[i + 1], age |-> ageL + 1,
                            index |-> i + 1, source |-> e.source]}
                     ELSE {}
            ageR  == IF right THEN ageL + 1 ELSE ageL
        IN  Flood([age  |-> ageR, out |-> out1, mask |-> st.mask,
                   heap |-> rest \cup pushL \cup pushR], image)

watershed(image, markers, mask) ==
    LET out0 == [i \in 1..Len(image) |-> IF mask[i] THEN markers[i] ELSE 0]
    IN  Flood([age  |-> 0, out |-> out0, mask |-> mask,
               heap |-> {[value |-> image[i], age |-> 0, index |-> i, source |-> i] :
                            i \in {i \in 1..Len(image) : out0[i] # 0}}], image)

\* the loop with the seeds left out of the candidates (no union1d)
RECURSIVE AgglomLoopUnseeded(_, _, _, _, _, _)
AgglomLoopUnseeded(trace, seeds, total_prob, steps, min_peak_prob, k) ==
    IF k < 0 THEN seeds
    ELSE
    LET lo   == Min(Range(trace))
        hi   == CHOOSE x \in Range(trace) : \A y \in Range(trace) : y <= x
        den  == IF steps = 1 THEN 1 ELSE steps - 1
        above(i, j) == At(trace, i) * den > lo * den + (hi - lo) * j
        cand_all == {i \in Frames(trace) : At(total_prob, i) >= min_peak_prob}
        cand_t == {i \in Frames(trace) :
                     \E j \in k..(steps - 1) :
                        above(i, j) /\ ~above(i, IF j = steps - 1 THEN j ELSE j + 1)}
        cand == cand_all \cap cand_t
        cand_mask == [i \in 1..Len(trace) |-> (i - 1) \in cand]
        grown == watershed(trace, seeds, cand_mask)
    IN  AgglomLoopUnseeded(trace, grown, total_prob, steps, min_peak_prob, k - 1)

\* one pass of the loop of lines 653-662 for threshold number k (counted down
\* from steps - 1 to 0); the thresholds are min + (max - min) * k / (steps - 1)
\* and the comparisons are multiplied out
RECURSIVE AgglomLoop(_, _, _, _, _, _)
AgglomLoop(trace, seeds, total_prob, steps, min_peak_prob, k) ==
    IF k < 0 THEN seeds
    ELSE
    LET lo   == Min(Range(trace))
        hi   == CHOOSE x \in Range(trace) : \A y \in Range(trace) : y <= x
        den  == IF steps = 1 THEN 1 ELSE steps - 1
        \* trace[i] > threshold number j
        above(i, j) == At(trace, i) * den > lo * den + (hi - lo) * j
        cand_all == {i \in Frames(trace) : At(total_prob, i) >= min_peak_prob}
        \* the bands of the thresholds steps-1 .. k, joined; the first pass
        \* has prev_t equal to its own threshold
        cand_t == {i \in Frames(trace) :
                     \E j \in k..(steps - 1) :
                        above(i, j) /\ ~above(i, IF j = steps - 1 THEN j ELSE j + 1)}
        cand == _labels_to_idxs(seeds) \cup (cand_all \cap cand_t)
        cand_mask == [i \in 1..Len(trace) |-> (i - 1) \in cand]
        grown == watershed(trace, seeds, cand_mask)
    IN  IF Len(grown) = Len(trace)
        THEN AgglomLoop(trace, grown, total_prob, steps, min_peak_prob, k - 1)
        ELSE grown

_agglom_watershed_peak_finder(trace, seeds, total_prob, steps, min_peak_prob) ==
    IF \E i \in 1..Len(seeds) : seeds[i] > 0
    THEN AgglomLoop(trace, seeds, total_prob, steps, min_peak_prob, steps - 1)
    ELSE seeds

\* the seeds taken with max_gap = 0
watershed_peak_gapless(traces, slope_prob, plateau_prob, steps, min_seed_prob, min_peak_prob, min_seed_length) ==
    LET zeros(n) == [i \in 1..Len(traces[n]) |-> 0]
        total_prob(n) == [i \in 1..Len(traces[n]) |->
                             slope_prob[n][i] + plateau_prob[n][i]]
        seeds(n) == _idxs_to_labels(traces[n],
                        _constant_thres_seg(plateau_prob[n], min_seed_prob,
                                            min_seed_length, 0))
        grown(n) == \E i \in 1..Len(traces[n]) : seeds(n)[i] > 0
    IN  [labels |-> [n \in 1..Len(traces) |->
                        IF grown(n)
                        THEN _agglom_watershed_peak_finder(traces[n], seeds(n),
                                 total_prob(n), steps, min_peak_prob)
                        ELSE zeros(n)],
         seed_labels |-> [n \in 1..Len(traces) |->
                            IF grown(n) THEN seeds(n) ELSE zeros(n)]]

\* [labels, seed_labels]
watershed_peak(traces, slope_prob, plateau_prob, steps, min_seed_prob, min_peak_prob, min_seed_length) ==
    LET zeros(n) == [i \in 1..Len(traces[n]) |-> 0]
        total_prob(n) == [i \in 1..Len(traces[n]) |->
                             slope_prob[n][i] + plateau_prob[n][i]]
        seeds(n) == _idxs_to_labels(traces[n],
                        _constant_thres_seg(plateau_prob[n], min_seed_prob,
                                            min_seed_length, SeedMaxGap))
        grown(n) == \E i \in 1..Len(traces[n]) : seeds(n)[i] > 0
    IN  [labels |-> [n \in 1..Len(traces) |->
                        IF grown(n)
                        THEN _agglom_watershed_peak_finder(traces[n], seeds(n),
                                 total_prob(n), steps, min_peak_prob)
                        ELSE zeros(n)],
         seed_labels |-> [n \in 1..Len(traces) |->
                            IF grown(n) THEN seeds(n) ELSE zeros(n)]]

----------------------------------------------------------------------------
(* Inputs of the model *)

SiteNames == {"a", "b"}

NonePred == [plateau |-> <<>>, slope |-> <<>>]

Ramp == <<10, 30, 50, 50, 30, 10>>
Flat == <<10, 10, 10, 10, 10, 10>>
Gap  == <<20, NaN, 40, 60, 40, 20>>

\* what add_site is called with: traces and the slope and plateau channels
\* of the predictions (None for a call without predictions and weights)
SiteInputs ==
    << [traces      |-> <<Ramp, Ramp>>,
        predictions |-> [plateau |-> << <<0, 0, 90, 90, 0, 0>>, <<0, 0, 90, 90, 0, 0>> >>,
                         slope   |-> << <<0, 60, 0, 0, 60, 0>>, <<0, 60, 0, 0, 60, 0>> >>]],
       [traces      |-> <<Gap>>,
        predictions |-> [plateau |-> << <<0, 0, 0, 90, 90, 0>> >>,
                         slope   |-> << <<0, 60, 60, 0, 0, 60>> >>]],
       [traces      |-> <<Ramp>>,
        predictions |-> NonePred] >>

\* what add_site_labels is called with
LabelInputs ==
    << [traces      |-> <<Flat, Ramp>>,
        peak_labels |-> << <<0, 0, 0, 0, 0, 0>>, <<0, 1, 1, 1, 1, 0>> >>,
        seed_labels |-> << <<0, 0, 0, 0, 0, 0>>, <<0, 0, 1, 1, 0, 0>> >>] >>

DefaultSteps == 25
DefaultMinSeedProb == 80
DefaultMinPeakProb == 50
DefaultMinSeedLength == 2

AmplitudeArgs == {<<TRUE>>, <<FALSE>>}

\* adjust_edge, dist, duplicates
BaseArgs == {<<TRUE, DefaultDist, TRUE>>, <<FALSE, DefaultDist, FALSE>>}

\* method, duplicates
AsymmetryArgs == {<<"plateau", TRUE>>, <<"amplitude", TRUE>>, <<"amplitude", FALSE>>}

\* adjust_tracts, bi_directional, max_gap, duplicates
ProminenceArgs == {<<TRUE, FALSE, 12, TRUE>>, <<FALSE, TRUE, 5, FALSE>>}

\* max_gap, duplicates
TractsArgs == {<<12, TRUE>>, <<5, TRUE>>, <<12, FALSE>>}

\* rel_height, abs_height, estimate, return_widest, duplicates
WidthArgs ==
    {<<500, <<>>, "linear", TRUE, TRUE>>,
     <<500, <<>>, "base", TRUE, TRUE>>,
     <<500, <<500>>, "linear", TRUE, TRUE>>,
     <<500, <<500>>, "base", FALSE, FALSE>>,
     <<250, <<>>, "linear", TRUE, TRUE>>,
     <<254, <<>>, "linear", FALSE, FALSE>>}

Methods == {"base", "median"}

DelAttrNames == {"amplitude", "base_pts", "tracts", "prominence", "peak_auc",
                 "cross_rel_0_50", "width_rel_0_50", "gaussians"}

----------------------------------------------------------------------------
(* The operations of Peaks *)

Labelled(traces, predictions, ws) ==
    peak_site(traces, ws.labels, ws.seed_labels, predictions)

Segmented(traces, predictions, nn, steps, min_seed_prob, min_peak_prob, min_seed_length) ==
    IF nn.err # "" THEN [err |-> nn.err, site |-> <<>>]
    ELSE Labelled(traces, predictions,
                  watershed_peak(nn.rows, predictions.slope, predictions.plateau,
                                 steps, min_seed_prob, min_peak_prob,
                                 min_seed_length))

\* lines 26-36 up to the assignment: [site, err]
add_site_outcome(traces, predictions, steps, min_seed_prob, min_peak_prob, min_seed_length) ==
    IF predictions = NonePred
    THEN [err |-> "ValueError", site |-> <<>>]
    ELSE Segmented(traces, predictions, nan_helper_2d(traces), steps,
                   min_seed_prob, min_peak_prob, min_seed_length)

AddSiteOutcomes ==
    [i \in DOMAIN SiteInputs |->
        add_site_outcome(SiteInputs[i].traces, SiteInputs[i].predictions,
                         DefaultSteps, DefaultMinSeedProb, DefaultMinPeakProb,
                         DefaultMinSeedLength)]

Given(name, traces) ==
    given' = [k \in (DOMAIN given) \cup {name} |->
                 IF k = name THEN traces ELSE given[k]]

\* self[name] = the constructed site, unless the construction raised
Stored(op, name, i, traces, r) ==
    IF r.err # ""
    THEN /\ UNCHANGED <<sites, order, given>>
         /\ Called(op, <<name, i>>, "", r.err, <<>>)
    ELSE /\ SetItem(name, r.site)
         /\ Given(name, traces)
         /\ Called(op, <<name, i>>, "", "", <<>>)

add_site(name, i) ==
    /\ nops < MaxOps
    /\ Stored("add_site", name, i, SiteInputs[i].traces, AddSiteOutcomes[i])

LabelOutcomes ==
    [i \in DOMAIN LabelInputs |->
        peak_site(LabelInputs[i].traces, LabelInputs[i].peak_labels,
                  LabelInputs[i].seed_labels, NonePred)]

add_site_labels(name, i) ==
    /\ nops < MaxOps
    /\ Stored("add_site_labels", name, i, LabelInputs[i].traces, LabelOutcomes[i])

\* a loop that replaces every site by a newly constructed one; it stops at
\* the first constructor that raises, which leaves that site as it was
Rebuilt(op, args, r, bad) ==
    /\ sites' = [k \in DOMAIN sites |->
                    IF bad = {} \/ Pos(k) < Min(bad) THEN r[k].site ELSE sites[k]]
    /\ Called(op, args, "", IF bad = {} THEN "" ELSE r[order[Min(bad)]].err, <<>>)
    /\ UNCHANGED <<order, given>>

RebuiltAll(op, args, r) ==
    Rebuilt(op, args, r, {i \in 1..Len(order) : r[order[i]].err # ""})

Rebuild(op, args, r) ==
    /\ nops < MaxOps
    /\ RebuiltAll(op, args, r)

\* a reload that takes the working traces, as filter_peaks does
reload_sites_from_traces ==
    Rebuild("reload_sites", <<>>,
            [k \in DOMAIN sites |->
                LET s == sites[k]
                IN  peak_site(s.traces, s.peak_labels, s.seed_labels,
                                 s.predictions)])

reload_sites ==
    Rebuild("reload_sites", <<>>,
            [k \in DOMAIN sites |->
                LET s == sites[k]
                IN  peak_site(s.raw_traces, s.peak_labels, s.seed_labels,
                                 s.predictions)])

filter_peaks(drop) ==
    Rebuild("filter_peaks", <<drop>>,
            [k \in DOMAIN sites |->
                LET s == sites[k]
                    c == clean_peaks(s.peak_labels, s.seed_labels, drop)
                IN  peak_site(s.traces, c.peaks, c.seeds, s.predictions)])

\* an operation that returns nothing
Mutated(op, args, b) ==
    /\ sites' = b.sites
    /\ Called(op, args, "", b.err, <<>>)
    /\ UNCHANGED <<order, given>>

Mutator(op, args, r) ==
    /\ nops < MaxOps
    /\ Mutated(op, args, Broadcast(r))

interp_nans == Mutator("interp_nans", <<>>, [k \in DOMAIN sites |-> _interp_nans(sites[k])])

\* line 123, return self.gaussians: Peaks has no such attribute unless a site
\* of that name was added (_set_keys2attr), so the loop that ran to its end
\* is followed by an AttributeError
Gaussians(b) ==
    IF b.err = "" /\ "gaussians" \notin DOMAIN sites
    THEN [sites |-> b.sites, err |-> "AttributeError"]
    ELSE b

normalize_traces(method) ==
    /\ nops < MaxOps
    /\ Mutated("normalize_traces", <<method>>,
               Gaussians(Broadcast([k \in DOMAIN sites |-> _normalize_traces(sites[k], method)])))

del_attr(attr) ==
    Mutator("del_attr", <<attr>>, [k \in DOMAIN sites |-> Ok(_clear_attr(sites[k], attr))])

amplitude(duplicates) ==
    Accessor("amplitude", <<duplicates>>, "amplitude",
             [k \in DOMAIN sites |-> _get_amplitude(sites[k], duplicates)])

base(adjust_edge, dist, duplicates) ==
    Accessor("base", <<adjust_edge, dist, duplicates>>, "base",
             [k \in DOMAIN sites |-> _get_base(sites[k], adjust_edge, dist, duplicates)])

asymmetry(method, duplicates) ==
    Accessor("asymmetry", <<method, duplicates>>, "asymmetry",
             [k \in DOMAIN sites |-> _get_asymmetry(sites[k], method, duplicates)])

base_pts(adjust_edge, dist, duplicates) ==
    Accessor("base_pts", <<adjust_edge, dist, duplicates>>, "base_pts",
             [k \in DOMAIN sites |-> _get_peak_base_pts(sites[k], adjust_edge, dist, duplicates)])

prominence(adjust_tracts, bi_directional, max_gap, duplicates) ==
    Accessor("prominence", <<adjust_tracts, bi_directional, max_gap, duplicates>>,
             "prominence",
             [k \in DOMAIN sites |-> _get_prominence(sites[k], adjust_tracts, bi_directional,
                                        max_gap, duplicates)])

peak_area_under_curve(duplicates) ==
    Accessor("peak_area_under_curve", <<duplicates>>, "peak_auc",
             [k \in DOMAIN sites |-> _get_auc(sites[k], "peak", duplicates)])

total_area_under_curve ==
    Accessor("total_area_under_curve", <<>>, "total_auc",
             [k \in DOMAIN sites |-> _get_auc(sites[k], "total", TRUE)])

integral == Accessor("integral", <<>>, "integral", [k \in DOMAIN sites |-> _get_integral(sites[k])])

derivative == Accessor("derivative", <<>>, "derivative", [k \in DOMAIN sites |-> _get_derivative(sites[k])])

width(rel_height, abs_height, estimate, return_widest, duplicates) ==
    Accessor("width", <<rel_height, abs_height, estimate, return_widest, duplicates>>,
             width_attr(rel_height, abs_height),
             [k \in DOMAIN sites |-> _get_width(sites[k], rel_height, abs_height, estimate,
                                   return_widest, duplicates)])

cross_pts(rel_height, abs_height, estimate, return_widest, duplicates) ==
    Accessor("cross_pts", <<rel_height, abs_height, estimate, return_widest, duplicates>>,
             cross_attr(rel_height, abs_height),
             [k \in DOMAIN sites |-> _get_cross_pts(sites[k], rel_height, abs_height, estimate,
                                       return_widest, duplicates)])

plateau_width(duplicates) ==
    Accessor("plateau_width", <<duplicates>>, "plateau_width",
             [k \in DOMAIN sites |-> _get_plateau_width(sites[k], duplicates)])

slope_pts(duplicates) ==
    Accessor("slope_pts", <<duplicates>>, "slope_pts",
             [k \in DOMAIN sites |-> _get_slope_pts(sites[k], duplicates)])

\* max_gap is accepted and not handed on
tracts(max_gap, duplicates) ==
    Accessor("tracts", <<max_gap, duplicates>>, "tracts",
             [k \in DOMAIN sites |-> _get_tracts(sites[k], TractsDefaultMaxGap, duplicates)])

----------------------------------------------------------------------------
(* Properties *)

MetricOps ==
    {"amplitude", "base", "base_pts", "tracts", "prominence", "slope_pts",
     "plateau_width", "peak_area_under_curve", "total_area_under_curve",
     "integral", "derivative", "width", "cross_pts"}

\* a step that is one call of op
Call(op) == nops' = nops + 1 /\ last'.op = op

\* a step that repeats the metric call before it, with the same arguments
RepeatedCall ==
    /\ nops' = nops + 1
    /\ last.op \in MetricOps
    /\ last'.op = last.op
    /\ last'.args = last.args

SameCounts(key) ==
    \A k \in DOMAIN sites : Count(sites'[k], key) = Count(sites[k], key)

\* C1: a metric accessor called twice in a row with the same arguments ends
\* the second time as it ended the first time, with the identical value, and
\* the second call enters no computation of the metric.
C1_Idempotent ==
    [][RepeatedCall =>
        /\ last'.err = last.err
        /\ last'.val = last.val
        /\ SameCounts(last'.key)]_vars

\* the outcome r of a request for the metric cached under key on site s
CachedReturns(s, key, r) ==
    hasattr(s, key) =>
        /\ r.err = ""
        /\ getattr(r.s, key) = getattr(s, key)
        /\ Count(r.s, key) = Count(s, key)

\* C2: on a site that holds a metric, a request for it with any parameters
\* returns the cached value, leaves it as it is and does not compute it anew.
C2_CachedRequestReturns ==
    \A k \in DOMAIN sites :
        /\ \A a \in AmplitudeArgs :
            /\ CachedReturns(sites[k], "amplitude", _get_amplitude(sites[k], a[1]))
            /\ CachedReturns(sites[k], "peak_auc", _get_auc(sites[k], "peak", a[1]))
            /\ CachedReturns(sites[k], "slope_pts", _get_slope_pts(sites[k], a[1]))
            /\ CachedReturns(sites[k], "plateau_width",
                             _get_plateau_width(sites[k], a[1]))
        /\ \A a \in BaseArgs :
            /\ CachedReturns(sites[k], "base", _get_base(sites[k], a[1], a[2], a[3]))
            /\ CachedReturns(sites[k], "base_pts",
                             _get_peak_base_pts(sites[k], a[1], a[2], a[3]))
        /\ \A a \in ProminenceArgs :
            CachedReturns(sites[k], "prominence",
                          _get_prominence(sites[k], a[1], a[2], a[3], a[4]))
        /\ \A a \in TractsArgs :
            CachedReturns(sites[k], "tracts", _get_tracts(sites[k], a[1], a[2]))
        /\ \A a \in WidthArgs :
            /\ CachedReturns(sites[k], width_attr(a[1], a[2]),
                             _get_width(sites[k], a[1], a[2], a[3], a[4], a[5]))
            /\ CachedReturns(sites[k], cross_attr(a[1], a[2]),
                             _get_cross_pts(sites[k], a[1], a[2], a[3], a[4], a[5]))

\* C3: the raw_traces of every site are the traces that add_site (or
\* add_site_labels) was given for its name.
C3_RawTracesAreGiven ==
    \A k \in DOMAIN sites : sites[k].raw_traces = given[k]

\* C4: reload_sites ends without an exception and leaves every site
\* without a cached metric, with the raw_traces, peak_labels, seed_labels
\* and predictions it had, with traces equal to raw_traces, and the names
\* and their order as they were.
C4_ReloadFrame ==
    [][Call("reload_sites") =>
        /\ last'.err = ""
        /\ order' = order
        /\ DOMAIN sites' = DOMAIN sites
        /\ \A k \in DOMAIN sites :
            /\ sites'[k].attrs = NoAttrs
            /\ sites'[k].raw_traces = sites[k].raw_traces
            /\ sites'[k].peak_labels = sites[k].peak_labels
            /\ sites'[k].seed_labels = sites[k].seed_labels
            /\ sites'[k].predictions = sites[k].predictions
            /\ sites'[k].traces = sites'[k].raw_traces]_vars

\* reload_sites has acted on a site that held cached metrics
C4_Reloaded ==
    /\ last.op = "reload_sites"
    /\ \E k \in DOMAIN sites :
        /\ Cardinality(last.had[k]) >= 2
        /\ sites[k].attrs = NoAttrs

\* the outcome, on site s, of the site-level accessor behind the collection
\* accessor op, called with the arguments args of the collection call
Requested(s, op, args) ==
    CASE op = "amplitude" -> _get_amplitude(s, args[1])
      [] op = "base" -> _get_base(s, args[1], args[2], args[3])
      [] op = "base_pts" -> _get_peak_base_pts(s, args[1], args[2], args[3])
      [] op = "prominence" -> _get_prominence(s, args[1], args[2], args[3], args[4])
      [] op = "peak_area_under_curve" -> _get_auc(s, "peak", args[1])
      [] op = "tracts" -> _get_tracts(s, args[1], args[2])
      [] op = "slope_pts" -> _get_slope_pts(s, args[1])
      [] op = "plateau_width" -> _get_plateau_width(s, args[1])
      [] op = "width" -> _get_width(s, args[1], args[2], args[3], args[4], args[5])
      [] op = "cross_pts" ->
            _get_cross_pts(s, args[1], args[2], args[3], args[4], args[5])
      [] OTHER -> Ok(s)

\* C5: del_attr(m) raises nothing and changes a site by removing m and
\* nothing else (a site without m is left as it is); the accessor of m that
\* is called next and returns gives every site the value computed from the
\* arguments of that call.
C5_DelAttrThenRecompute ==
    [][/\ Call("del_attr") =>
            /\ last'.err = ""
            /\ order' = order
            /\ \A k \in DOMAIN sites : sites'[k] = delattr(sites[k], last'.args[1])
       /\ (/\ last.op = "del_attr"
           /\ nops' = nops + 1
           /\ last'.op \in MetricOps
           /\ last'.key = last.args[1]
           /\ last'.err = "") =>
            \A k \in DOMAIN sites :
                getattr(sites'[k], last'.key)
                    = getattr(Requested(sites[k], last'.op, last'.args).s, last'.key)
      ]_vars

C7_AucUniverse ==
    [][Call("peak_area_under_curve") =>
        \A k \in DOMAIN sites :
            ~hasattr(sites[k], "peak_auc") =>
                /\ hasattr(sites'[k], "peak_auc")
                /\ getattr(sites'[k], "peak_auc")
                    = [n \in Rows(sites[k]) |->
                        LET U == PeakUniverse(sites[k], last'.args[1])[n]
                        IN  [j \in 1..Len(U) |->
                                du("_area_under_curve",
                                   <<sites[k].traces[n], U[j]>>)]]]_vars

\* no site holds a cached metric
NothingCached == \A k \in DOMAIN sites : sites[k].attrs = NoAttrs

\* attribute key of site s holds one list per trace and one entry per peak
\* of the index lists the duplicates flag selects
OnePerPeak(s, key, duplicates) ==
    /\ hasattr(s, key)
    /\ Len(getattr(s, key)) = Len(s.traces)
    /\ \A n \in Rows(s) :
        Len(getattr(s, key)[n]) = Len(PeakUniverse(s, duplicates)[n])

\* C8: asymmetry, with either method, on sites without cached metrics
\* returns without an exception, has computed amplitude, and holds one
\* entry per peak of every trace.
C8_AsymmetryCompletes ==
    [][(Call("asymmetry") /\ NothingCached) =>
        /\ last'.err = ""
        /\ \A k \in DOMAIN sites :
            /\ hasattr(sites'[k], "amplitude")
            /\ OnePerPeak(sites'[k], "asymmetry", last'.args[2])]_vars

\* C9: cross_pts and width, for a relative or an absolute height and
\* estimate 'linear' or 'base', on sites without cached metrics return
\* without an exception and hold one entry per peak of every trace.
C9_CrossPtsCompletes ==
    [][((Call("cross_pts") \/ Call("width")) /\ NothingCached) =>
        /\ last'.err = ""
        /\ \A k \in DOMAIN sites :
            OnePerPeak(sites'[k], last'.key, last'.args[5])]_vars

Relative(a) == a[2] = <<>>

Height(a) == IF Relative(a) THEN a[1] ELSE a[2][1]

\* two requests of the width and cross_pts family for the same kind of
\* height and heights that round to the same hundredth
SameSlot(a, b) == Relative(a) = Relative(b) /\ Round2(Height(a)) = Round2(Height(b))

FamilyKeys(a) == {width_attr(a[1], a[2]), cross_attr(a[1], a[2])}

\* C10: a width or cross_pts request with arguments a uses keys that no
\* request b of another kind or another rounded height uses, and leaves
\* what is or is not cached under the keys of b as it was.
C10_KeysSideBySide ==
    [][\A a, b \in WidthArgs :
        (/\ nops' = nops + 1
         /\ last'.op \in {"width", "cross_pts"}
         /\ last'.args = a
         /\ ~SameSlot(a, b)) =>
            /\ last'.key \in FamilyKeys(a)
            /\ FamilyKeys(a) \cap FamilyKeys(b) = {}
            /\ \A k \in DOMAIN sites : \A key \in FamilyKeys(b) :
                /\ hasattr(sites'[k], key) = hasattr(sites[k], key)
                /\ hasattr(sites[k], key) =>
                        getattr(sites'[k], key) = getattr(sites[k], key)]_vars

\* a site holds crossing points for a relative height, for the absolute
\* height of the same number and for another relative height, all different
C10_SideBySide ==
    \E k \in DOMAIN sites :
        /\ {"cross_rel_0_50", "cross_abs_0_50", "cross_rel_0_25"}
                \subseteq DOMAIN sites[k].attrs
        /\ getattr(sites[k], "cross_rel_0_50") # getattr(sites[k], "cross_abs_0_50")
        /\ getattr(sites[k], "cross_rel_0_50") # getattr(sites[k], "cross_rel_0_25")
        /\ getattr(sites[k], "cross_abs_0_50") # <<>>
        /\ last.op = "cross_pts"

\* C22: tracts(max_gap, duplicates) gives a site without tracts, for every
\* trace, the tracts that data_utils builds with the max_gap of the call
C22_TractsUseGivenGap ==
    [][Call("tracts") =>
        \A k \in DOMAIN sites :
            ~hasattr(sites[k], "tracts") =>
                /\ hasattr(sites'[k], "tracts")
                /\ getattr(sites'[k], "tracts")
                    = [n \in Rows(sites[k]) |->
                        du("_detect_peak_tracts",
                           <<sites[k].traces[n],
                             LabelUniverse(sites[k], last'.args[2])[n],
                             last'.args[1]>>)]]_vars

\* C24: when a metric request ends in an exception, no site is left with a
\* cache entry it did not hold before that is short of one list per trace:
\* the metric that failed has no entry, so a later request computes it
C24_FailedMetricLeavesNoEntry ==
    (last.op \in MetricOps /\ last.err # "") =>
        \A k \in DOMAIN sites :
            \A key \in DOMAIN sites[k].attrs \ last.had[k] :
                Len(getattr(sites[k], key)) = Len(sites[k].traces)

----------------------------------------------------------------------------
(* The specification *)

\* Peaks(): an empty collection, nothing called yet
Fresh ==
    /\ sites = NoAttrs
    /\ order = <<>>
    /\ given = NoAttrs
    /\ last = [op |-> "init", args |-> <<>>, key |-> "", err |-> "", val |-> <<>>,
               had |-> NoAttrs]
    /\ nops = 0

\* arg holds the arguments of a function that is examined on its own; it is
\* not used by the collection
Callers == {1, 2}

\* run holds the calls of an accessor that are in progress on one site when
\* its callers are threads: per caller the statement it is at (pc), the row
\* of its loop (n) and the list it loaded for the append (target); the list
\* objects created so far (lists), the one self.amplitude is bound to (bound,
\* 0 for no attribute), what each caller was returned as it was at the return
\* (got), and how often the computing body was entered (entered)
Threads(at) ==
    [pc      |-> [c \in Callers |-> at],
     n       |-> [c \in Callers |-> 0],
     target  |-> [c \in Callers |-> 0],
     lists   |-> <<>>,
     bound   |-> 0,
     got     |-> [c \in Callers |-> <<>>],
     entered |-> 0]

\* the collection and the functions examined on their own run in one thread
Quiet == run = Threads("none")

Init ==
    /\ Fresh
    /\ arg = <<>>
    /\ Quiet

Next ==
    \/ \E name \in SiteNames, i \in DOMAIN SiteInputs : add_site(name, i)
    \/ \E name \in SiteNames, i \in DOMAIN LabelInputs : add_site_labels(name, i)
    \/ reload_sites
    \/ \E drop \in {0, 1} : filter_peaks(drop)
    \/ interp_nans
    \/ \E method \in Methods : normalize_traces(method)
    \/ \E attr \in DelAttrNames : del_attr(attr)
    \/ \E a \in AmplitudeArgs : amplitude(a[1])
    \/ \E a \in BaseArgs : base(a[1], a[2], a[3])
    \/ \E a \in AsymmetryArgs : asymmetry(a[1], a[2])
    \/ \E a \in BaseArgs : base_pts(a[1], a[2], a[3])
    \/ \E a \in ProminenceArgs : prominence(a[1], a[2], a[3], a[4])
    \/ \E a \in AmplitudeArgs : peak_area_under_curve(a[1])
    \/ total_area_under_curve
    \/ integral
    \/ derivative
    \/ \E a \in WidthArgs : width(a[1], a[2], a[3], a[4], a[5])
    \/ \E a \in WidthArgs : cross_pts(a[1], a[2], a[3], a[4], a[5])
    \/ \E a \in AmplitudeArgs : plateau_width(a[1])
    \/ \E a \in AmplitudeArgs : slope_pts(a[1])
    \/ \E a \in TractsArgs : tracts(a[1], a[2])

Spec == Init /\ [][Next]_vars

----------------------------------------------------------------------------
(* The Seed Extractor on its own: _constant_thres_seg applied to one row   *)
(* of plateau probabilities (percent).                                     *)

MaxFrames == 7

ProbLevels == {0, 80, 90}

\* result, min_prob, min_length, max_gap
SeedArgs ==
    {<<r, DefaultMinSeedProb, ml, mg>> :
        r \in [1..MaxFrames -> ProbLevels], ml \in 1..2, mg \in 0..SeedMaxGap}

SeedInit ==
    /\ Fresh
    /\ arg \in SeedArgs
    /\ Quiet

SeedCall ==
    /\ nops = 0
    /\ Called("_constant_thres_seg", arg, "", "",
              _constant_thres_seg(arg[1], arg[2], arg[3], arg[4]))
    /\ UNCHANGED <<sites, order, given>>

SeedSpec == SeedInit /\ [][SeedCall]_vars

\* the maximal runs of consecutive frames whose value exceeds min_prob, in
\* ascending order
MaximalRuns(result, min_prob) ==
    LET cand   == {i \in Frames(result) : At(result, i) > min_prob}
        starts == SortSet({i \in cand : (i - 1) \notin cand})
        stop(a) == CHOOSE b \in cand :
                      /\ b >= a
                      /\ \A c \in a..b : c \in cand
                      /\ (b + 1) \notin cand
    IN  [k \in 1..Len(starts) |-> SortSet(starts[k]..stop(starts[k]))]

\* C11: with max_gap = 0 the seeds are exactly the maximal runs of
\* consecutive frames above min_prob that are at least min_length long; in
\* particular [0,0,0.9,0.9,0.9,0,0] with min_length 2 gives the one seed
\* [2,3,4]
C11_SeedsAreMaximalRuns ==
    (last.op = "_constant_thres_seg" /\ last.args[4] = 0) =>
        last.val = SelectSeq(MaximalRuns(last.args[1], last.args[2]),
                             LAMBDA q : Len(q) >= last.args[3])

\* the frames above min_prob cut into runs wherever more than max_gap
\* frames that are not above it lie between two of them, in ascending order
RunsWithGaps(result, min_prob, max_gap) ==
    LET cand   == SortSet({i \in Frames(result) : At(result, i) > min_prob})
        starts == SortSet({k \in 1..Len(cand) :
                            k = 1 \/ cand[k] - cand[k - 1] - 1 > max_gap})
        stop(j) == IF j = Len(starts) THEN Len(cand) ELSE starts[j + 1] - 1
    IN  [j \in 1..Len(starts) |-> SubSeq(cand, starts[j], stop(j))]

\* C23: max_gap is the number of frames that can be missing inside a seed:
\* two consecutive frames above min_prob are in one run exactly when at most
\* max_gap frames lie between them, and the seeds are exactly the runs that
\* hold at least min_length frames above min_prob
C23_MaxGapCountsMissingFrames ==
    last.op = "_constant_thres_seg" =>
        last.val = SelectSeq(RunsWithGaps(last.args[1], last.args[2], last.args[4]),
                             LAMBDA q : Len(q) >= last.args[3])

----------------------------------------------------------------------------
(* The construction of a site on its own: peak_site.__init__ on label      *)
(* arrays handed in by a caller (as add_site_labels does), with the        *)
(* de-duplication taken one row of its outer loop at a time.               *)

MaxRows == 3

\* two halves of a row; rows that share a half are equal on its five frames
\* and differ on every frame otherwise
HalfP == <<10, 30, 50, 30, 10>>
HalfQ == <<11, 31, 51, 31, 11>>

TraceRows == {a \o b : a, b \in {HalfP, HalfQ}}

\* a row of peak labels and the row of seed labels that goes with it
LabelRows ==
    { [peaks |-> <<0, 0, 0, 0, 0, 0, 0, 0, 0, 0>>, seeds |-> <<0, 0, 0, 0, 0, 0, 0, 0, 0, 0>>],
      [peaks |-> <<0, 1, 1, 1, 0, 0, 0, 0, 0, 0>>, seeds |-> <<0, 0, 1, 0, 0, 0, 0, 0, 0, 0>>],
      [peaks |-> <<0, 0, 0, 0, 0, 0, 1, 1, 1, 0>>, seeds |-> <<0, 0, 0, 0, 0, 0, 0, 1, 0, 0>>],
      [peaks |-> <<0, 1, 1, 1, 0, 0, 2, 2, 2, 0>>, seeds |-> <<0, 0, 1, 0, 0, 0, 0, 2, 0, 0>>],
      [peaks |-> <<0, 1, 0, 2, 0, 0, 3, 3, 3, 0>>, seeds |-> <<0, 1, 0, 2, 0, 0, 0, 3, 0, 0>>],
      [peaks |-> <<0, 0, 1, 1, 0, 0, 0, 0, 0, 0>>, seeds |-> <<0, 0, 1, 0, 0, 0, 0, 0, 0, 0>>] }

\* traces, peak_labels, seed_labels
SiteArgs ==
    {<<t, [n \in 1..MaxRows |-> l[n].peaks], [n \in 1..MaxRows |-> l[n].seeds]>> :
        t \in [1..MaxRows -> TraceRows], l \in [1..MaxRows -> LabelRows]}

SiteInit ==
    /\ Fresh
    /\ arg \in SiteArgs
    /\ Quiet

\* the de-duplicated peak list started from the seed labels
UndeduplicatedFromSeeds ==
    [err |-> "", pk |-> _labels_to_peak_idxs(arg[3]), pl |-> _labels_to_peak_idxs(arg[3])]

\* the index lists when _remove_duplicate_peaks is entered (lines 303-311)
Undeduplicated ==
    [err |-> "", pk |-> _labels_to_peak_idxs(arg[2]), pl |-> _labels_to_peak_idxs(arg[3])]

\* the de-duplicated lists as the rows processed so far have left them
Deduplicating == IF last.op = "init" THEN Undeduplicated ELSE last.val

\* one pass of the loop over n of _remove_duplicate_peaks (lines 327-351)
DedupRow ==
    /\ last.op \in {"init", "_remove_duplicate_peaks"}
    /\ last.err = ""
    /\ nops < Len(arg[1])
    /\ Called("_remove_duplicate_peaks", <<nops + 1>>, "",
              LoopMatch(Deduplicating, arg[1], Undeduplicated.pl, nops + 1,
                        potential_matches(arg[1], nops + 1), 1).err,
              LoopMatch(Deduplicating, arg[1], Undeduplicated.pl, nops + 1,
                        potential_matches(arg[1], nops + 1), 1))
    /\ UNCHANGED <<sites, order, given>>

\* the rest of the constructor once the loop has ended (lines 313-314)
Constructed ==
    /\ last.op = "_remove_duplicate_peaks"
    /\ last.err = ""
    /\ nops = Len(arg[1])
    /\ Called("peak_site", arg, "", "",
              NewSite(arg[1], arg[2], arg[3], NonePred, Undeduplicated.pk,
                      Undeduplicated.pl, last.val).site)
    /\ UNCHANGED <<sites, order, given>>

SiteNext ==
    \/ DedupRow
    \/ Constructed

SiteSpec == SiteInit /\ [][SiteNext]_vars

\* every plateau of a row lies inside the peak at the same position
Aligned(pk, pl) ==
    \A n \in 1..Len(pk) :
        /\ Len(pl[n]) = Len(pk[n])
        /\ \A i \in 1..Len(pk[n]) : Range(pl[n][i]) \subseteq Range(pk[n][i])

\* C12: the plateau taken out of a row's de-duplicated list is the seed of
\* the peak taken out with it: no removal fails, and after every row of the
\* loop and in the constructed site the de-duplicated plateau list of each
\* row is as long as its de-duplicated peak list, plateau i inside peak i
C12_PlateausFollowPeaks ==
    /\ last.op = "_remove_duplicate_peaks" =>
          /\ last.err = ""
          /\ Aligned(last.val.pk, last.val.pl)
    /\ last.op = "peak_site" =>
          Aligned(last.val._dedup_peak_idxs, last.val._dedup_plateau_idxs)

\* a is b with some entries left out, the others in their order
IsSubList(a, b) ==
    \E f \in [1..Len(a) -> 1..Len(b)] :
        /\ \A i \in 1..Len(a) : b[f[i]] = a[i]
        /\ \A i, j \in 1..Len(a) : i < j => f[i] < f[j]

SubLists(pk, full) ==
    /\ Len(pk) = Len(full)
    /\ \A n \in 1..Len(full) : IsSubList(pk[n], full[n]) /\ Len(pk[n]) <= Len(full[n])

\* C13: the construction of a site leaves traces, label arrays and the full
\* index lists as they follow from the arguments, and every row's
\* de-duplicated peak list, after every row of the loop and in the site, is
\* an order-preserving sub-list of the row's full peak list
C13_DedupOnlyShortens ==
    /\ last.op = "_remove_duplicate_peaks" =>
          SubLists(last.val.pk, _labels_to_peak_idxs(arg[2]))
    /\ last.op = "peak_site" =>
          /\ last.val.traces = arg[1]
          /\ last.val.peak_labels = arg[2]
          /\ last.val.seed_labels = arg[3]
          /\ last.val._peak_idxs = _labels_to_peak_idxs(arg[2])
          /\ last.val._plateau_idxs = _labels_to_peak_idxs(arg[3])
          /\ SubLists(last.val._dedup_peak_idxs, _labels_to_peak_idxs(arg[2]))

\* a site whose de-duplication took a peak from one row and none from another
C13_SomePeakRemoved ==
    /\ last.op = "peak_site"
    /\ \E n \in 1..Len(arg[1]) :
          Len(last.val._dedup_peak_idxs[n]) < Len(last.val._peak_idxs[n])
    /\ \E n \in 1..Len(arg[1]) :
          /\ Len(last.val._peak_idxs[n]) > 0
          /\ last.val._dedup_peak_idxs[n] = last.val._peak_idxs[n]

\* peak x of row n repeats peak y of row p: the rows agree on more than
\* MinOverlap samples, x lies in the frames on which they agree and more than
\* 80% of x lies in y
Repeats(traces, n, x, p, y) ==
    /\ n # p
    /\ Cardinality(overlaps(traces, n, p)) > MinOverlap
    /\ IsMatch(x, y, overlaps(traces, n, p))

\* rows n and p carry the same peak, as x and as y
SamePeak(traces, n, x, p, y) ==
    Repeats(traces, n, x, p, y) /\ Repeats(traces, p, y, n, x)

\* the outcome of a finished de-duplication, full being the full peak lists
\* and pk the de-duplicated ones
Directional(traces, full, pk) ==
    \A n, p \in 1..Len(full) : \A x \in Range(full[n]), y \in Range(full[p]) :
        /\ (n < p /\ Repeats(traces, n, x, p, y)) => x \notin Range(pk[n])
        /\ (/\ n < p
            /\ SamePeak(traces, n, x, p, y)
            /\ \A q \in 1..Len(full) \ {n, p} : \A z \in Range(full[q]) :
                   ~Repeats(traces, p, y, q, z))
           => y \in Range(pk[p])
        /\ (n = p /\ x = y /\ x \notin Range(pk[n]))
           => \E m \in 1..Len(full) \ {n} : \E z \in Range(pk[m]) :
                  Range(z) \cap Range(x) # {}

\* C14: a pass of the loop for row n changes no other row's de-duplicated
\* lists; in the constructed site a peak that repeats a peak of a
\* higher-indexed row is gone from the lower row, of two rows that carry the
\* same peak (no third row carrying it) the higher-indexed keeps it, and for
\* every removed peak some other row keeps a peak that overlaps it
C14_RemovalIsDirectional ==
    [][/\ last'.op = "_remove_duplicate_peaks" =>
             \A m \in 1..Len(arg[1]) \ {last'.args[1]} :
                 /\ last'.val.pk[m] = Deduplicating.pk[m]
                 /\ last'.val.pl[m] = Deduplicating.pl[m]
       /\ last'.op = "peak_site" =>
             Directional(arg[1], last'.val._peak_idxs, last'.val._dedup_peak_idxs)
      ]_vars

\* two rows carried the same peak: the lower-indexed lost it, the other kept it
C14_LowerRowLost ==
    /\ last.op = "peak_site"
    /\ \E n, p \in 1..Len(arg[1]) :
          \E x \in Range(last.val._peak_idxs[n]), y \in Range(last.val._peak_idxs[p]) :
              /\ n < p
              /\ SamePeak(arg[1], n, x, p, y)
              /\ x \notin Range(last.val._dedup_peak_idxs[n])
              /\ y \in Range(last.val._dedup_peak_idxs[p])

\* every row has as many seeds as peaks, the seed of a label on frames of
\* the peak of that label
SeedsMatchPeaks(peak_labels, seed_labels) ==
    \A n \in 1..Len(peak_labels) :
        /\ Range(seed_labels[n]) = Range(peak_labels[n])
        /\ \A i \in 1..Len(seed_labels[n]) :
                seed_labels[n][i] # 0 => peak_labels[n][i] = seed_labels[n][i]

\* C21: on label arrays whose rows hold a seed for every peak and no other,
\* no row of the de-duplication loop ends in ValueError('Peak not found.'),
\* whatever rows repeat which segments
C21_NoPeakNotFound ==
    (/\ SeedsMatchPeaks(arg[2], arg[3])
     /\ last.op = "_remove_duplicate_peaks") => last.err # "ValueError"

----------------------------------------------------------------------------
(* The segmentation on its own: watershed_peak on two rows, the first      *)
(* drawn from the shapes and probability rows below, the second one of two *)
(* fixed companions.  The two probabilities of a frame sum to at most 100. *)

Hump   == <<10, 30, 50, 50, 30, 10, 10>>
Valley == <<50, 30, 10, 10, 10, 30, 50>>
Level  == <<10, 10, 10, 10, 10, 10, 10>>

PlateauRows == [1..MaxFrames -> {0, 90}]

\* the slope probability that goes with a plateau row: low everywhere, high
\* wherever the plateau is low, or high on the low frames of one half
SlopeRow(plateau, kind) ==
    [i \in 1..MaxFrames |->
        IF plateau[i] > 0 THEN (IF kind <= 2 THEN 10 ELSE 0)
        ELSE CASE kind = 1 -> 0
               [] kind = 2 -> 60
               [] kind = 3 -> (IF i <= 3 THEN 60 ELSE 0)
               [] OTHER    -> (IF i > 3 THEN 60 ELSE 40)]

\* trace, slope, plateau of the second row
Companions ==
    { [trace |-> Level,  slope |-> <<0, 0, 0, 0, 0, 0, 0>>,
       plateau |-> <<0, 0, 0, 0, 0, 0, 0>>],
      [trace |-> Hump, slope |-> <<0, 60, 0, 0, 60, 0, 0>>,
       plateau |-> <<0, 0, 90, 90, 0, 0, 0>>] }

Fit(row) == [i \in 1..MaxFrames |-> IF i <= Len(row) THEN row[i] ELSE row[Len(row)]]

\* the number of thresholds the rows are grown with
WatershedSteps == 5

\* traces, slope_prob, plateau_prob, steps, min_seed_prob, min_peak_prob,
\* min_seed_length
WatershedArgs ==
    {<< <<Fit(t), Fit(c.trace)>>, <<SlopeRow(pl, kind), Fit(c.slope)>>,
        <<pl, Fit(c.plateau)>>,
        WatershedSteps, DefaultMinSeedProb, DefaultMinPeakProb, ml>> :
        t \in {Hump, Valley, Level}, c \in Companions, ml \in {1, DefaultMinSeedLength},
        pl \in PlateauRows, kind \in 1..4}

WatershedInit ==
    /\ Fresh
    /\ arg \in WatershedArgs
    /\ Quiet

WatershedCall ==
    /\ nops = 0
    /\ Called("watershed_peak", arg, "", "",
              watershed_peak(arg[1], arg[2], arg[3], arg[4], arg[5], arg[6], arg[7]))
    /\ UNCHANGED <<sites, order, given>>

WatershedSpec == WatershedInit /\ [][WatershedCall]_vars

\* the frames of a row of labels that carry label l
Carrying(lab, l) == {i \in 1..Len(lab) : lab[i] = l}

Positive(lab) == {lab[i] : i \in 1..Len(lab)} \ {0}

\* the call has returned; its label arrays are last.val
Segmentation == last.op = "watershed_peak"

\* C15: in the returned peak_labels no two neighbouring frames carry
\* different positive labels, and no peak holds a frame of another seed
C15_PeaksStayApart ==
    Segmentation =>
        \A n \in 1..Len(last.val.labels) :
            LET lab  == last.val.labels[n]
                seed == last.val.seed_labels[n]
            IN  /\ \A i \in 1..(Len(lab) - 1) :
                      (lab[i] > 0 /\ lab[i + 1] > 0) => lab[i] = lab[i + 1]
                /\ \A i \in 1..Len(lab) :
                      (lab[i] > 0 /\ seed[i] > 0) => lab[i] = seed[i]

\* two peaks that grew towards each other and left one frame between them,
\* a frame the probabilities would have admitted
C15_BoundaryFrame ==
    /\ Segmentation
    /\ \E n \in 1..Len(last.val.labels) : \E i \in 2..(Len(last.val.labels[n]) - 1) :
          LET lab  == last.val.labels[n]
              seed == last.val.seed_labels[n]
          IN  /\ lab[i] = 0
              /\ lab[i - 1] > 0 /\ lab[i + 1] > 0 /\ lab[i - 1] # lab[i + 1]
              /\ seed[i - 1] = 0 /\ seed[i + 1] = 0
              /\ last.args[2][n][i] + last.args[3][n][i] >= last.args[6]

\* C16: every peak of the returned peak_labels is one run of frames: between
\* the first and the last frame that carry a label every frame carries it
C16_PeaksAreRuns ==
    Segmentation =>
        \A n \in 1..Len(last.val.labels) : \A l \in Positive(last.val.labels[n]) :
            \A i, j \in Carrying(last.val.labels[n], l) :
                \A k \in i..j : last.val.labels[n][k] = l

\* C17: in every row in which peaks were grown each frame of seed s carries
\* label s in peak_labels, and the seed labels are the Seed Extractor's runs
C17_SeedsInsidePeaks ==
    Segmentation =>
        \A n \in 1..Len(last.val.labels) :
            /\ \A i \in 1..Len(last.val.labels[n]) :
                  last.val.seed_labels[n][i] > 0 =>
                      last.val.labels[n][i] = last.val.seed_labels[n][i]
            /\ last.val.seed_labels[n] =
                  _idxs_to_labels(last.args[1][n],
                      _constant_thres_seg(last.args[3][n], last.args[5],
                                          last.args[7], SeedMaxGap))

\* a row whose peak grew beyond its seed on both sides
C17_PeakOutgrewSeed ==
    /\ Segmentation
    /\ \E n \in 1..Len(last.val.labels) : \E i \in 2..(Len(last.val.labels[n]) - 1) :
          /\ last.val.seed_labels[n][i] > 0
          /\ last.val.seed_labels[n][i - 1] = 0
          /\ last.val.labels[n][i - 1] = last.val.seed_labels[n][i]
          /\ \E j \in (i + 1)..Len(last.val.labels[n]) :
                /\ last.val.seed_labels[n][j] = 0
                /\ last.val.labels[n][j] = last.val.seed_labels[n][i]

\* the number of seeds the Seed Extractor finds in row n of the call
SeedCount(n) ==
    Len(_constant_thres_seg(last.args[3][n], last.args[5], last.args[7], SeedMaxGap))

\* C18: the returned arrays hold naturals, 0 for background; in every row
\* the positive peak labels (and seed labels) are exactly 1..k for the k
\* seeds of that row, and a row without a seed is all zero in both arrays
C18_LabelsCountSeeds ==
    Segmentation =>
        \A n \in 1..Len(last.val.labels) :
            /\ \A i \in 1..Len(last.val.labels[n]) :
                  last.val.labels[n][i] \in Nat /\ last.val.seed_labels[n][i] \in Nat
            /\ Positive(last.val.labels[n]) = 1..SeedCount(n)
            /\ Positive(last.val.seed_labels[n]) = 1..SeedCount(n)

\* a first row with two seeds and a second row whose one peak is numbered 1,
\* or a first row without a seed
C18_NumberingRestarts ==
    /\ Segmentation
    /\ SeedCount(1) = 2
    /\ SeedCount(2) = 1
    /\ Positive(last.val.labels[2]) = {1}

----------------------------------------------------------------------------
(* The interpolation on its own: nan_helper_2d on a one-row array, as      *)
(* add_site applies it to the traces before the segmentation.              *)

InterpFrames == 5

\* samples whose differences every gap of the model divides
SampleLevels == {NaN, 120, 240}

InterpArgs == {<<row>> : row \in [1..InterpFrames -> SampleLevels]}

InterpInit ==
    /\ Fresh
    /\ arg \in InterpArgs
    /\ Quiet

InterpCall ==
    /\ nops = 0
    /\ Called("nan_helper_2d", arg, "", nan_helper_2d(arg).err, nan_helper_2d(arg).rows)
    /\ UNCHANGED <<sites, order, given>>

InterpSpec == InterpInit /\ [][InterpCall]_vars

\* frame i of row is missing and has a valid sample on both sides
Interior(row, i) ==
    /\ row[i] = NaN
    /\ \E l \in Valid(row) : l < i
    /\ \E r \in Valid(row) : r > i

\* v lies at frame i on the line through the nearest valid samples
OnLine(row, i, v) ==
    \E l, r \in Valid(row) :
        /\ l < i /\ i < r
        /\ \A k \in Valid(row) : k <= l \/ k >= r
        /\ (v - row[l]) * (r - l) = (row[r] - row[l]) * (i - l)

\* C19: in the array handed to the segmentation a valid sample is kept, a
\* missing sample with valid samples on both sides lies on the line between
\* the nearest of them, and a leading or trailing missing sample is still
\* missing
C19_OnlyInteriorFilled ==
    (last.op = "nan_helper_2d" /\ last.err = "") =>
        \A n \in 1..Len(last.args) : \A i \in 1..Len(last.args[n]) :
            LET row == last.args[n]
                out == last.val[n][i]
            IN  /\ row[i] # NaN => out = row[i]
                /\ Interior(row, i) => OnLine(row, i, out)
                /\ (row[i] = NaN /\ ~Interior(row, i)) => out = NaN

----------------------------------------------------------------------------
(* Two threads call _get_amplitude on one site.  A thread may be suspended *)
(* between any two statements of the accessor; callers that serialize      *)
(* their calls by a lock of the site enter one at a time.                  *)

\* sites of one to MaxRows traces, each with one peak
AccessorSites ==
    {peak_site([n \in 1..R |-> Ramp],
               [n \in 1..R |-> <<0, 1, 1, 1, 1, 0>>],
               [n \in 1..R |-> <<0, 0, 1, 1, 0, 0>>], NonePred).site :
        R \in 1..MaxRows}

\* the site, the duplicates flag, and whether the callers serialize
AccessorArgs == AccessorSites \X BOOLEAN \X BOOLEAN

AccessorInit ==
    /\ Fresh
    /\ arg \in AccessorArgs
    /\ run = Threads("start")

\* what lines 357-361 append, row by row
AmplitudeRows == getattr(_get_amplitude(arg[1], arg[2]).s, "amplitude")

Moved(c, at) == [run EXCEPT !.pc[c] = at]

\* the call begins; serialized callers wait until no other call is inside
Enter(c) ==
    /\ run.pc[c] = "start"
    /\ arg[3] => \A d \in Callers \ {c} : run.pc[d] \in {"start", "done"}
    /\ run' = Moved(c, "check")
    /\ UNCHANGED <<sites, order, given, last, nops, arg>>

\* if not hasattr(self, 'amplitude')
Check(c) ==
    /\ run.pc[c] = "check"
    /\ run' = Moved(c, IF run.bound = 0 THEN "create" ELSE "return")
    /\ UNCHANGED <<sites, order, given, last, nops, arg>>

\* self.amplitude = []
Create(c) ==
    /\ run.pc[c] = "create"
    /\ run' = [run EXCEPT !.pc[c] = "loop",
                          !.n[c] = 1,
                          !.lists = Append(run.lists, <<>>),
                          !.bound = Len(run.lists) + 1,
                          !.entered = run.entered + 1]
    /\ UNCHANGED <<sites, order, given, last, nops, arg>>

\* for n in range(...): the loop ends, or self.amplitude.append is loaded
Load(c) ==
    /\ run.pc[c] = "loop"
    /\ run' = IF run.n[c] > Len(arg[1].traces)
              THEN Moved(c, "return")
              ELSE [run EXCEPT !.pc[c] = "append", !.target[c] = run.bound]
    /\ UNCHANGED <<sites, order, given, last, nops, arg>>

\* the row is computed and left out of the list
AppendRowSkipped(c) ==
    /\ run.pc[c] = "append"
    /\ run' = [run EXCEPT !.pc[c] = "loop", !.n[c] = run.n[c] + 1]
    /\ UNCHANGED <<sites, order, given, last, nops, arg>>

\* the row is computed and appended to the list that was loaded
AppendRow(c) ==
    /\ run.pc[c] = "append"
    /\ run' = [run EXCEPT !.pc[c] = "loop",
                          !.n[c] = run.n[c] + 1,
                          !.lists[run.target[c]] =
                                Append(run.lists[run.target[c]],
                                       AmplitudeRows[run.n[c]])]
    /\ UNCHANGED <<sites, order, given, last, nops, arg>>

\* return self.amplitude
Return(c) ==
    /\ run.pc[c] = "return"
    /\ run' = [run EXCEPT !.pc[c] = "done", !.got[c] = run.lists[run.bound]]
    /\ UNCHANGED <<sites, order, given, last, nops, arg>>

AccessorNext ==
    \E c \in Callers :
        \/ Enter(c)
        \/ Check(c)
        \/ Create(c)
        \/ Load(c)
        \/ AppendRow(c)
        \/ Return(c)

AccessorSpec == AccessorInit /\ [][AccessorNext]_vars

\* C20: when the two callers serialize their calls by a lock of the site,
\* every caller is returned the complete list, one entry per trace
C20_SerializedCallsComplete ==
    arg[3] => \A c \in Callers :
                run.pc[c] = "done" =>
                    /\ run.got[c] = AmplitudeRows
                    /\ Len(run.got[c]) = Len(arg[1].traces)

\* without the lock a caller was returned a list with fewer entries than
\* the site has traces, and the computing body was entered twice
C20_ShortEntryReturned ==
    /\ ~arg[3]
    /\ run.entered = 2
    /\ \E c \in Callers :
        /\ run.pc[c] = "done"
        /\ Len(run.got[c]) < Len(arg[1].traces)

====
